---- MODULE Spec2Model ----
(***************************************************************************)
(* Model of src/server/index.js: the room registry, the auction game state *)
(* machine, the session / reconnection handling and the per-recipient view *)
(* projection.  Every action is one socket.io event handler or one timer   *)
(* callback, run to completion (Node's single-threaded event loop).        *)
(***************************************************************************)
EXTENDS Integers, Sequences, FiniteSets, TLC

(* ------------------------------------------------------------------ *)
(* Bounds of the model                                                *)
(* ------------------------------------------------------------------ *)
\* number of connections ever accepted by the server
MaxSockets == 4
\* number of rounds a room may complete (length of its roundLogs)
MaxRounds == 1
\* number of rooms ever created
MaxRooms == 1
\* pending game-over deletion timers remembered per room id
MaxCleanupTimers == 1
\* room:create / room:join events one connection sends
MaxJoins == 1
\* game:setItem events the server accepts
MaxSetItems == 2
\* number of rounds a room may complete in SpecWin
MaxWinRounds == 5
\* rooms created again after the first one was deleted
MaxRecreates == 1
\* room:create events beyond the 99 candidate ids of one host name
MaxIdCreates == 2
\* length of the item lists passed to checkWin on its own
MaxCallItems == 6

\* display names clients use (already trimmed, at most 10 characters)
Names == {"A", "B", "C"}
\* the names that create rooms
HostNames == {"A"}
\* the names a connection uses: the first three connections are the users
\* A, B and C, every later connection is a returning user under any name
UserNames(s) == IF s = 1 THEN {"A"} ELSE IF s = 2 THEN {"B"}
                ELSE IF s = 3 THEN {"C"} ELSE Names
\* amounts clients send with game:confirmBid: negative, zero, not a
\* multiple of 10000, more than any player owns
Amounts == {-5000, 0, 15000, 2000000}
\* items the host sends with game:setItem: none, two of the catalog
SetItemInputs == {"", "squid", "shrimp"}
\* values of Date.now() seen by room:create
Clock == {1000, 1001}

(* ------------------------------------------------------------------ *)
(* Program constants                                                  *)
(* ------------------------------------------------------------------ *)
\* ITEMS: '오징어', '독도새우', '호박', '명이나물'
ITEMS == <<"squid", "shrimp", "pumpkin", "myeongi">>
StartBalance == 1000000
Bonus == 50000
BidUnit == 10000
MinPlayers == 3
MaxPlayers == 8
MaxIdx == 99
LogWindow == 10

VARIABLES
  rooms,          \* the registry: a function from room id to room record
  sock,           \* per connection: status, roomId, playerName, grace timer
  nSock,          \* number of connections accepted so far (ids 1..nSock)
  nRooms,         \* number of rooms created so far
  nSetItems,      \* number of game:setItem events accepted so far
  cleanupTimers,  \* room id -> number of pending setTimeout(cleanupRoom)
  checkWinCall    \* a call of checkWin on its own: the items passed, the value returned

vars == <<rooms, sock, nSock, nRooms, nSetItems, cleanupTimers, checkWinCall>>

(* ------------------------------------------------------------------ *)
(* Helpers                                                            *)
(* ------------------------------------------------------------------ *)
Range(s) == {s[i] : i \in 1..Len(s)}

Min2(a, b) == IF a < b THEN a ELSE b

Max2(a, b) == IF a > b THEN a ELSE b

RECURSIVE SumSeq(_)
SumSeq(s) == IF s = <<>> THEN 0 ELSE Head(s) + SumSeq(Tail(s))

\* Math.max(0, ...holds)
MaxOf(s) == IF s = <<>> THEN 0
            ELSE Max2(0, CHOOSE m \in Range(s) : \A x \in Range(s) : x <= m)

\* Array.prototype.findIndex, 1-based, 0 when absent
FirstIndex(s, Test(_)) ==
  IF \E i \in 1..Len(s) : Test(s[i])
  THEN CHOOSE i \in 1..Len(s) : Test(s[i]) /\ \A j \in 1..(i - 1) : ~Test(s[j])
  ELSE 0

FindBySocket(players, s) == LET T(p) == p.socketId = s IN FirstIndex(players, T)

FindByName(players, n) == LET T(p) == p.name = n IN FirstIndex(players, T)

\* Array.prototype.splice(idx, 1)
RemoveAt(s, idx) == [i \in 1..(Len(s) - 1) |-> IF i < idx THEN s[i] ELSE s[i + 1]]

\* a JavaScript null / a present value, for the fields of a projection
Null == {}

Some(v) == {v}

NoRoom == <<>>

NoName == ""

ItemSet == Range(ITEMS)

(* ------------------------------------------------------------------ *)
(* Room ids                                                           *)
(* ------------------------------------------------------------------ *)
\* the id `${hostName}의방${suffix}`: suffix 1 stands for the bare base,
\* 2..98 for the counter, a Clock value for the Date.now() fallback
RECURSIVE GenLoop(_, _, _, _, _)
GenLoop(ids, hostName, candidate, idx, now) ==
  IF candidate \in ids
  THEN IF idx + 1 > MaxIdx THEN <<hostName, now>>
       ELSE GenLoop(ids, hostName, <<hostName, idx>>, idx + 1, now)
  ELSE candidate

generateRoomId(ids, hostName, now) == GenLoop(ids, hostName, <<hostName, 1>>, 2, now)

(* ------------------------------------------------------------------ *)
(* Entities                                                           *)
(* ------------------------------------------------------------------ *)
NewPlayer(pid, s, name) ==
  [id |-> pid, socketId |-> s, name |-> name, balance |-> StartBalance,
   hold |-> 0, bid |-> 0, items |-> <<>>, willParticipate |-> "null",
   readyPart |-> FALSE, readyBid |-> FALSE]

NewRoom(roomId, name, s, boardMode) ==
  [id |-> roomId, hostName |-> name, hostSocketId |-> s, boardMode |-> boardMode,
   started |-> FALSE, gameOver |-> FALSE,
   players |-> <<NewPlayer(1, s, name)>>,
   round |-> 0, phase |-> "choose", currentItem |-> "",
   participants |-> <<>>, lastWinners |-> <<>>, lastItem |-> "",
   roundLogs |-> <<>>, finalWinners |-> <<>>,
   timeout |-> TRUE, inactiveTimeout |-> FALSE]

(* ------------------------------------------------------------------ *)
(* View projection                                                    *)
(* ------------------------------------------------------------------ *)
LastLogs(logs) ==
  IF Len(logs) <= LogWindow THEN logs
  ELSE SubSeq(logs, Len(logs) - LogWindow + 1, Len(logs))

\* the projection with every player's hold left in it
sanitizeRoom_HoldShown(room, forPlayer) ==
  [id |-> room.id, hostName |-> room.hostName, boardMode |-> room.boardMode,
   started |-> room.started, gameOver |-> room.gameOver, round |-> room.round,
   phase |-> room.phase, currentItem |-> room.currentItem,
   participants |-> room.participants, lastWinners |-> room.lastWinners,
   lastItem |-> room.lastItem, roundLogs |-> LastLogs(room.roundLogs),
   finalWinners |-> room.finalWinners,
   players |-> [i \in 1..Len(room.players) |->
     LET p == room.players[i] IN
     [id |-> p.id, name |-> p.name,
      balance |-> IF p.name = forPlayer THEN Some(p.balance) ELSE Null,
      hold |-> Some(p.hold),
      itemCount |-> Len(p.items),
      items |-> IF p.name = forPlayer THEN Some(p.items) ELSE Null,
      readyPart |-> p.readyPart, readyBid |-> p.readyBid,
      willParticipate |-> p.willParticipate,
      isHost |-> p.name = room.hostName]]]

sanitizeRoom(room, forPlayer) ==
  [id |-> room.id, hostName |-> room.hostName, boardMode |-> room.boardMode,
   started |-> room.started, gameOver |-> room.gameOver, round |-> room.round,
   phase |-> room.phase, currentItem |-> room.currentItem,
   participants |-> room.participants, lastWinners |-> room.lastWinners,
   lastItem |-> room.lastItem, roundLogs |-> LastLogs(room.roundLogs),
   finalWinners |-> room.finalWinners,
   players |-> [i \in 1..Len(room.players) |->
     LET p == room.players[i] IN
     [id |-> p.id, name |-> p.name,
      balance |-> IF p.name = forPlayer THEN Some(p.balance) ELSE Null,
      hold |-> IF p.name = forPlayer THEN Some(p.hold) ELSE Null,
      itemCount |-> Len(p.items),
      items |-> IF p.name = forPlayer THEN Some(p.items) ELSE Null,
      readyPart |-> p.readyPart, readyBid |-> p.readyBid,
      willParticipate |-> p.willParticipate,
      isHost |-> p.name = room.hostName]]]

\* the object spread of nextRound: the projection with the raw players
finalRoom(room) ==
  [sanitizeRoom(room, NoName) EXCEPT !.players = room.players]

\* a message that carries a room: to one connection (to # 0) or to the
\* socket.io room of a room id (bcast # NoRoom)
Msg(type, to, bcast, forPlayer, view) ==
  [type |-> type, to |-> to, bcast |-> bcast, for |-> forPlayer, room |-> view]

OpenSockets == {s \in 1..nSock : sock[s].status = "open"}

\* room.players.forEach(p => socket && socket.emit(type, sanitizeRoom(room, p.name)))
PerPlayer(type, room, open) ==
  LET live == SelectSeq(room.players, LAMBDA p : p.socketId \in open)
  IN  [i \in 1..Len(live) |->
         Msg(type, live[i].socketId, NoRoom, live[i].name,
             sanitizeRoom(room, live[i].name))]

broadcastToRoom(room, open) == PerPlayer("room:updated", room, open)

(* ------------------------------------------------------------------ *)
(* Game logic                                                         *)
(* ------------------------------------------------------------------ *)
Count(items, it) == Cardinality({i \in 1..Len(items) : items[i] = it})

\* checkWin without the rule of five items
checkWin_NoAny5(items) ==
  IF Len(items) = 0 THEN "null"
  ELSE IF \E it \in Range(items) : Count(items, it) >= 3 THEN "same3"
  ELSE IF Cardinality(Range(items)) >= 4 THEN "diff4"
  ELSE "null"

checkWin(items) ==
  IF Len(items) = 0 THEN "null"
  ELSE IF Len(items) >= 5 THEN "any5"
  ELSE IF \E it \in Range(items) : Count(items, it) >= 3 THEN "same3"
  ELSE IF Cardinality(Range(items)) >= 4 THEN "diff4"
  ELSE "null"

\* checkWin(items) called with a list and its return value
Called(items) == [items |-> items, returned |-> checkWin(items)]

\* checkWin([]), which returns null
NoCall == Called(<<>>)

\* item tokens a list may hold: the catalog, and any other string the host
\* sent with game:setItem
Tokens == ItemSet \cup {"other"}

\* the list items with it put in at position pos
InsertAt(items, pos, it) ==
  SubSeq(items, 1, pos - 1) \o <<it>> \o SubSeq(items, pos, Len(items))

\* checkWin called with the previous list and one more item
CheckWinCall(it, pos) ==
  /\ Len(checkWinCall.items) < MaxCallItems
  /\ checkWinCall' = Called(InsertAt(checkWinCall.items, pos, it))
  /\ UNCHANGED <<rooms, sock, nSock, nRooms, nSetItems, cleanupTimers>>

resetRoundState(room) ==
  [room EXCEPT !.phase = "choose", !.participants = <<>>,
     !.players = [i \in 1..Len(room.players) |->
        [room.players[i] EXCEPT !.willParticipate = "null", !.readyPart = FALSE,
                                !.readyBid = FALSE, !.bid = 0]]]

\* nextRound up to the win check: counter, last outcome, log entry
RoundRecorded(room, winners, item) ==
  [room EXCEPT !.round = room.round + 1, !.lastWinners = winners,
               !.lastItem = item,
               !.roundLogs = Append(room.roundLogs,
                  [round |-> room.round + 1, item |-> item,
                   participants |-> room.participants, winners |-> winners])]

GameWinners(room) ==
  LET won == SelectSeq(room.players, LAMBDA p : checkWin(p.items) # "null")
  IN  [i \in 1..Len(won) |-> won[i].name]

\* nextRound naming the winners of the round as the winners of the game
nextRound_RoundWinners(room, winners, item, rnd) ==
  LET r1 == RoundRecorded(room, winners, item)
  IN  IF Len(GameWinners(r1)) > 0
      THEN [r1 EXCEPT !.gameOver = TRUE, !.finalWinners = winners]
      ELSE [resetRoundState(r1) EXCEPT
              !.currentItem = IF r1.boardMode THEN "" ELSE rnd]

\* the room nextRound leaves; rnd is the draw of randomItem()
nextRound(room, winners, item, rnd) ==
  LET r1 == RoundRecorded(room, winners, item)
  IN  IF Len(GameWinners(r1)) > 0
      THEN [r1 EXCEPT !.gameOver = TRUE, !.finalWinners = GameWinners(r1)]
      ELSE [resetRoundState(r1) EXCEPT
              !.currentItem = IF r1.boardMode THEN "" ELSE rnd]

\* the messages nextRound emits
nextRoundMsgs(room, winners, item, open) ==
  LET r1 == RoundRecorded(room, winners, item)
      r2 == [r1 EXCEPT !.gameOver = TRUE, !.finalWinners = GameWinners(r1)]
  IN  IF Len(GameWinners(r1)) > 0
      THEN <<Msg("game:ended", 0, r2.id, NoName, finalRoom(r2))>>
      ELSE PerPlayer("round:result", r1, open)

IsParticipant(room, p) == p.name \in Range(room.participants)

Bidders(room) == SelectSeq(room.players, LAMBDA p : IsParticipant(room, p))

AuctionWinners(room) ==
  LET bidders == Bidders(room)
      holds   == [i \in 1..Len(bidders) |-> bidders[i].hold]
      maxHold == MaxOf(holds)
      allZero == \A i \in 1..Len(holds) : holds[i] = 0
      top     == SelectSeq(bidders, LAMBDA p : p.hold = maxHold)
  IN  IF allZero THEN [i \in 1..Len(bidders) |-> bidders[i].name]
      ELSE IF maxHold > 0 THEN [i \in 1..Len(top) |-> top[i].name]
      ELSE <<>>

AuctionPlayers(room) ==
  LET bidders == Bidders(room)
      holds   == [i \in 1..Len(bidders) |-> bidders[i].hold]
      maxHold == MaxOf(holds)
      allZero == \A i \in 1..Len(holds) : holds[i] = 0
      winners == Range(AuctionWinners(room))
      item    == room.currentItem
      Pay(p)  ==
        IF IsParticipant(room, p)
        THEN IF allZero
             THEN [p EXCEPT !.balance = p.balance + p.hold, !.hold = 0,
                            !.items = Append(p.items, item)]
             ELSE IF maxHold > 0
             THEN IF p.name \in winners
                  THEN [p EXCEPT !.items = Append(p.items, item), !.hold = 0]
                  ELSE [p EXCEPT !.balance = p.balance + p.hold, !.hold = 0]
             ELSE p
        ELSE [p EXCEPT !.balance = p.balance + p.hold, !.hold = 0]
  IN  [i \in 1..Len(room.players) |-> Pay(room.players[i])]

\* the room after the payments of settleAuction, before its nextRound
AuctionPaid(room) == [room EXCEPT !.players = AuctionPlayers(room)]

settleAuction(room, rnd) ==
  nextRound(AuctionPaid(room), AuctionWinners(room), room.currentItem, rnd)

settleAuctionMsgs(room, open) ==
  nextRoundMsgs(AuctionPaid(room), AuctionWinners(room), room.currentItem, open)

\* the room after the payments of settleSingleBidder, before its nextRound
SinglePaid(room, winnerName) ==
  [room EXCEPT !.players = [i \in 1..Len(room.players) |->
     LET p == room.players[i] IN
     IF p.name = winnerName
     THEN [p EXCEPT !.balance = p.balance + p.hold, !.hold = 0,
                    !.items = Append(p.items, room.currentItem)]
     ELSE [p EXCEPT !.balance = p.balance + p.hold, !.hold = 0]]]

settleSingleBidder(room, winnerName, rnd) ==
  nextRound(SinglePaid(room, winnerName), <<winnerName>>, room.currentItem, rnd)

settleSingleBidderMsgs(room, winnerName, open) ==
  nextRoundMsgs(SinglePaid(room, winnerName), <<winnerName>>, room.currentItem, open)

AllReadyPart(room) == \A i \in 1..Len(room.players) : room.players[i].readyPart

ParticipantNames(room) ==
  LET yes == SelectSeq(room.players, LAMBDA p : p.willParticipate = "true")
  IN  [i \in 1..Len(yes) |-> yes[i].name]

\* checkPhaseAdvance after all players are ready: participants fixed, a
\* missing item drawn (rnd1)
Advancing(room, rnd1) ==
  [room EXCEPT !.participants = ParticipantNames(room),
               !.currentItem = IF ~room.boardMode /\ room.currentItem = ""
                               THEN rnd1 ELSE room.currentItem]

\* checkPhaseAdvance with the single participant sent to the bid phase
checkPhaseAdvance_SingleBids(room, rnd1, rnd2) ==
  IF room.phase # "choose" \/ ~AllReadyPart(room) THEN room
  ELSE
    LET r1 == Advancing(room, rnd1)
    IN  IF Len(r1.participants) = 0 THEN nextRound(r1, <<>>, r1.currentItem, rnd2)
        ELSE [r1 EXCEPT !.phase = "bid"]

\* the room checkPhaseAdvance leaves; rnd2 is the draw of nextRound
checkPhaseAdvance(room, rnd1, rnd2) ==
  IF room.phase # "choose" \/ ~AllReadyPart(room) THEN room
  ELSE
    LET r1 == Advancing(room, rnd1)
    IN  IF Len(r1.participants) = 0 THEN nextRound(r1, <<>>, r1.currentItem, rnd2)
        ELSE IF Len(r1.participants) = 1
        THEN settleSingleBidder(r1, r1.participants[1], rnd2)
        ELSE [r1 EXCEPT !.phase = "bid"]

\* the messages checkPhaseAdvance emits
checkPhaseAdvanceMsgs(room, rnd1, open) ==
  IF room.phase # "choose" \/ ~AllReadyPart(room) THEN <<>>
  ELSE
    LET r1 == Advancing(room, rnd1)
    IN  IF Len(r1.participants) = 0 THEN nextRoundMsgs(r1, <<>>, r1.currentItem, open)
        ELSE IF Len(r1.participants) = 1
        THEN settleSingleBidderMsgs(r1, r1.participants[1], open)
        ELSE broadcastToRoom([r1 EXCEPT !.phase = "bid"], open)

AllReadyBid(room) ==
  \A i \in 1..Len(room.players) :
     IsParticipant(room, room.players[i]) => room.players[i].readyBid

checkBidSettle(room, rnd) ==
  IF room.phase # "bid" \/ ~AllReadyBid(room) THEN room
  ELSE settleAuction(room, rnd)

checkBidSettleMsgs(room, open) ==
  IF room.phase # "bid" \/ ~AllReadyBid(room) THEN <<>>
  ELSE settleAuctionMsgs(room, open)

(* ------------------------------------------------------------------ *)
(* Registry and timers                                                *)
(* ------------------------------------------------------------------ *)
\* rooms.set(roomId, room)
SetRoom(rs, id, room) ==
  [x \in (DOMAIN rs) \cup {id} |-> IF x = id THEN room ELSE rs[x]]

\* rooms.delete(roomId); both timers of the room go with its record
cleanupRoom(rs, id) == [x \in (DOMAIN rs) \ {id} |-> rs[x]]

\* setTimeout(() => cleanupRoom(roomId), ...): one more pending timer
Schedule(ct, id) ==
  IF id \in DOMAIN ct
  THEN [ct EXCEPT ![id] = Min2(ct[id] + 1, MaxCleanupTimers)]
  ELSE [x \in (DOMAIN ct) \cup {id} |-> IF x = id THEN 1 ELSE ct[x]]

Fired(ct, id) ==
  IF ct[id] > 1 THEN [ct EXCEPT ![id] = ct[id] - 1]
  ELSE [x \in (DOMAIN ct) \ {id} |-> ct[x]]

\* who may act as host: the connection that created the room
IsHostSocket(room, s) == s = room.hostSocketId

\* the room a connection's events are routed to
RoomOf(s) == sock[s].roomId

\* the model stops a room after MaxRounds completed rounds
RoundsLeft(s) == Len(rooms[RoomOf(s)].roundLogs) < MaxRounds

HasRoom(s) == sock[s].status = "open" /\ RoomOf(s) \in DOMAIN rooms

\* a handler leaves room r in the registry; it has scheduled a deletion
\* exactly when it ended the game (nextRound) or is game:end
Commit(id, r, ended) ==
  /\ rooms' = [rooms EXCEPT ![id] = r]
  /\ cleanupTimers' = IF ended THEN Schedule(cleanupTimers, id) ELSE cleanupTimers

(* ------------------------------------------------------------------ *)
(* Connections                                                        *)
(* ------------------------------------------------------------------ *)
Connect ==
  /\ nSock < MaxSockets
  /\ nSock' = nSock + 1
  /\ sock' = [x \in 1..(nSock + 1) |->
                IF x = nSock + 1
                THEN [status |-> "open", roomId |-> NoRoom,
                      playerName |-> NoName, timer |-> FALSE, joins |-> 0]
                ELSE sock[x]]
  /\ UNCHANGED <<checkWinCall, rooms, nRooms, nSetItems, cleanupTimers>>

\* socket.roomId = roomId; socket.playerName = name
Bound(s, roomId, name) ==
  [sock EXCEPT ![s].roomId = roomId, ![s].playerName = name,
               ![s].joins = sock[s].joins + 1]

RoomCreateAccepted(s, hostName) ==
  /\ sock[s].status = "open"
  /\ hostName # NoName

RoomCreated(s, hostName, boardMode, now) ==
  NewRoom(generateRoomId(DOMAIN rooms, hostName, now), hostName, s, boardMode)

RoomCreateMsgs(s, hostName, boardMode, now) ==
  <<Msg("room:created", s, NoRoom, hostName,
        sanitizeRoom(RoomCreated(s, hostName, boardMode, now), hostName))>>

\* the room:create handler
RoomCreateStep(s, hostName, boardMode, now) ==
  /\ RoomCreateAccepted(s, hostName)
  /\ LET room == RoomCreated(s, hostName, boardMode, now)
     IN  /\ rooms' = SetRoom(rooms, room.id, room)
         /\ sock' = Bound(s, room.id, hostName)
  /\ nRooms' = nRooms + 1
  /\ UNCHANGED <<checkWinCall, nSock, nSetItems, cleanupTimers>>

\* room:create within the bounds of the model
RoomCreate(s, hostName, boardMode, now) ==
  /\ nRooms < MaxRooms
  /\ sock[s].joins < MaxJoins
  /\ RoomCreateStep(s, hostName, boardMode, now)

\* the reconnect branch making a fresh player of the same name
Rebind_Recreated(room, idx, s) ==
  [room EXCEPT !.players[idx] =
     NewPlayer(room.players[idx].id, s, room.players[idx].name)]

\* the reconnect branch of room:join
Rebind(room, idx, s) == [room EXCEPT !.players[idx].socketId = s]

\* the new-player branch of room:join
AddPlayer(room, s, name) ==
  [room EXCEPT !.players = Append(room.players,
                                  NewPlayer(Len(room.players) + 1, s, name))]

RoomJoinAccepted(s, roomId, playerName) ==
  /\ sock[s].status = "open"
  /\ roomId \in DOMAIN rooms
  /\ playerName # NoName
  /\ FindByName(rooms[roomId].players, playerName) = 0
       => ~rooms[roomId].started /\ Len(rooms[roomId].players) < MaxPlayers

IsReconnect(roomId, playerName) ==
  /\ roomId \in DOMAIN rooms
  /\ FindByName(rooms[roomId].players, playerName) # 0

RoomJoined(s, roomId, playerName) ==
  LET room     == rooms[roomId]
      existing == FindByName(room.players, playerName)
  IN  IF existing # 0 THEN Rebind(room, existing, s)
      ELSE AddPlayer(room, s, playerName)

RoomJoinMsgs(s, roomId, playerName) ==
  LET r1 == RoomJoined(s, roomId, playerName)
  IN  <<Msg("room:joined", s, NoRoom, playerName, sanitizeRoom(r1, playerName))>>
      \o broadcastToRoom(r1, OpenSockets)

RoomJoin(s, roomId, playerName) ==
  /\ RoomJoinAccepted(s, roomId, playerName)
  /\ sock[s].joins < MaxJoins
  /\ Commit(roomId, RoomJoined(s, roomId, playerName), FALSE)
  /\ sock' = Bound(s, roomId, playerName)
  /\ UNCHANGED <<checkWinCall, nSock, nRooms, nSetItems>>

\* handleLeave(sock): the registry it leaves
handleLeave(rs, s) ==
  LET roomId == sock[s].roomId IN
  IF roomId \notin DOMAIN rs THEN rs
  ELSE
    LET room == rs[roomId]
        idx  == FindBySocket(room.players, s)
    IN  IF idx = 0 THEN rs
        ELSE
          LET wasHost == IsHostSocket(room, s)
              r1 == [room EXCEPT !.players = RemoveAt(room.players, idx)]
          IN  IF wasHost \/ Len(r1.players) = 0
              THEN cleanupRoom(rs, roomId)
              ELSE [rs EXCEPT ![roomId] =
                      IF wasHost /\ Len(r1.players) > 0
                      THEN [r1 EXCEPT !.hostSocketId = r1.players[1].socketId,
                                      !.hostName = r1.players[1].name]
                      ELSE r1]

\* the messages handleLeave emits: the room, if it stays, to its players
handleLeaveMsgs(rs, s, open) ==
  LET roomId == sock[s].roomId
      after  == handleLeave(rs, s)
  IN  IF roomId \in DOMAIN rs /\ roomId \in DOMAIN after /\ after # rs
      THEN broadcastToRoom(after[roomId], open)
      ELSE <<>>

RoomLeaveAccepted(s) ==
  /\ HasRoom(s)
  /\ FindBySocket(rooms[RoomOf(s)].players, s) # 0

RoomLeave(s) ==
  /\ RoomLeaveAccepted(s)
  /\ rooms' = handleLeave(rooms, s)
  /\ UNCHANGED <<checkWinCall, sock, nSock, nRooms, nSetItems, cleanupTimers>>

Disconnect(s) ==
  /\ sock[s].status = "open"
  /\ sock' = [sock EXCEPT ![s].status = "closed", ![s].timer = TRUE]
  /\ UNCHANGED <<checkWinCall, rooms, nSock, nRooms, nSetItems, cleanupTimers>>

\* the test of the 30s callback set by the disconnect handler
GraceRemoves(s) ==
  /\ sock[s].roomId \in DOMAIN rooms
  /\ LET ps == rooms[sock[s].roomId].players
         i  == FindByName(ps, sock[s].playerName)
     IN  i # 0 /\ ps[i].socketId = s

GraceTimer(s) ==
  /\ sock[s].timer
  /\ sock' = [sock EXCEPT ![s].timer = FALSE]
  /\ rooms' = IF GraceRemoves(s) THEN handleLeave(rooms, s) ELSE rooms
  /\ UNCHANGED <<checkWinCall, nSock, nRooms, nSetItems, cleanupTimers>>

(* ------------------------------------------------------------------ *)
(* Game events                                                        *)
(* ------------------------------------------------------------------ *)
GameStartAccepted(s) ==
  /\ HasRoom(s)
  /\ IsHostSocket(rooms[RoomOf(s)], s)
  /\ Len(rooms[RoomOf(s)].players) >= MinPlayers

StartedRoom(room, rnd) ==
  [room EXCEPT !.started = TRUE, !.phase = "choose", !.round = 0,
               !.currentItem = IF ~room.boardMode THEN rnd ELSE room.currentItem,
               !.timeout = FALSE, !.inactiveTimeout = TRUE]

GameStartMsgs(s, rnd) ==
  PerPlayer("game:started", StartedRoom(rooms[RoomOf(s)], rnd), OpenSockets)

GameStart(s, rnd) ==
  /\ GameStartAccepted(s)
  /\ Commit(RoomOf(s), StartedRoom(rooms[RoomOf(s)], rnd), FALSE)
  /\ UNCHANGED <<checkWinCall, sock, nSock, nRooms, nSetItems>>

GameSetItemAccepted(s) ==
  /\ HasRoom(s)
  /\ rooms[RoomOf(s)].started /\ rooms[RoomOf(s)].boardMode
  /\ IsHostSocket(rooms[RoomOf(s)], s)

ItemChosen(room, item) ==
  [resetRoundState(room) EXCEPT !.currentItem = item, !.inactiveTimeout = TRUE]

GameSetItemMsgs(s, item) ==
  broadcastToRoom(ItemChosen(rooms[RoomOf(s)], item), OpenSockets)

GameSetItem(s, item) ==
  /\ GameSetItemAccepted(s)
  /\ nSetItems < MaxSetItems
  /\ Commit(RoomOf(s), ItemChosen(rooms[RoomOf(s)], item), FALSE)
  /\ nSetItems' = nSetItems + 1
  /\ UNCHANGED <<checkWinCall, sock, nSock, nRooms>>

LockPartAccepted(s) ==
  /\ HasRoom(s)
  /\ LET room == rooms[RoomOf(s)]
         i    == FindBySocket(room.players, s)
     IN  /\ room.started /\ ~room.gameOver /\ room.phase = "choose"
         /\ ~(room.boardMode /\ room.currentItem = "")
         /\ i # 0 /\ ~room.players[i].readyPart

\* the player's choice recorded, the opt-out bonus credited
Locked(room, i, willParticipate) ==
  [room EXCEPT !.players[i].willParticipate = IF willParticipate THEN "true" ELSE "false",
               !.players[i].readyPart = TRUE,
               !.players[i].balance = IF willParticipate THEN @ ELSE @ + Bonus,
               !.inactiveTimeout = TRUE]

\* the room of connection s with its choice recorded
LockedBy(s, willParticipate) ==
  Locked(rooms[RoomOf(s)], FindBySocket(rooms[RoomOf(s)].players, s), willParticipate)

LockPartMsgs(s, willParticipate, rnd1) ==
  LET r1 == LockedBy(s, willParticipate)
  IN  broadcastToRoom(r1, OpenSockets) \o checkPhaseAdvanceMsgs(r1, rnd1, OpenSockets)

\* the game:lockPart handler
LockPartStep(s, willParticipate, rnd1, rnd2) ==
  /\ LockPartAccepted(s)
  /\ LET after == checkPhaseAdvance(LockedBy(s, willParticipate), rnd1, rnd2)
     IN  Commit(RoomOf(s), after, after.gameOver)
  /\ UNCHANGED <<checkWinCall, sock, nSock, nRooms, nSetItems>>

\* game:lockPart within the rounds of the model
LockPart(s, willParticipate, rnd1, rnd2) ==
  /\ LockPartAccepted(s)
  /\ RoundsLeft(s)
  /\ LockPartStep(s, willParticipate, rnd1, rnd2)

BidAccepted(s) ==
  /\ HasRoom(s)
  /\ LET room == rooms[RoomOf(s)]
         i    == FindBySocket(room.players, s)
     IN  /\ room.started /\ ~room.gameOver /\ room.phase = "bid"
         /\ i # 0 /\ ~room.players[i].readyBid
         /\ IsParticipant(room, room.players[i])

\* the clamp without the rounding down to the unit
BidAmount_NoFloor(amount, maxBid) == Max2(0, Min2(amount, maxBid))

\* Math.max(0, Math.min(Math.floor(amount / 10000) * 10000, maxBid))
BidAmount(amount, maxBid) == Max2(0, Min2((amount \div BidUnit) * BidUnit, maxBid))

BidPlaced(room, i, amount) ==
  LET p      == room.players[i]
      maxBid == p.balance + p.hold
      b      == BidAmount(amount, maxBid)
  IN  [room EXCEPT !.players[i].hold = b, !.players[i].bid = b,
                   !.players[i].balance = maxBid - b,
                   !.players[i].readyBid = TRUE,
                   !.inactiveTimeout = TRUE]

\* the room of connection s with its bid recorded
BidPlacedBy(s, amount) ==
  BidPlaced(rooms[RoomOf(s)], FindBySocket(rooms[RoomOf(s)].players, s), amount)

ConfirmBidMsgs(s, amount) ==
  LET r1 == BidPlacedBy(s, amount)
  IN  broadcastToRoom(r1, OpenSockets) \o checkBidSettleMsgs(r1, OpenSockets)

\* the game:confirmBid handler
ConfirmBidStep(s, amount, rnd) ==
  /\ BidAccepted(s)
  /\ LET after == checkBidSettle(BidPlacedBy(s, amount), rnd)
     IN  Commit(RoomOf(s), after, after.gameOver)
  /\ UNCHANGED <<checkWinCall, sock, nSock, nRooms, nSetItems>>

\* game:confirmBid within the rounds of the model
ConfirmBid(s, amount, rnd) ==
  /\ BidAccepted(s)
  /\ RoundsLeft(s)
  /\ ConfirmBidStep(s, amount, rnd)

BidCancelled(room, i) ==
  LET p == room.players[i]
  IN  [room EXCEPT !.players[i].balance = p.balance + p.hold,
                   !.players[i].hold = 0, !.players[i].bid = 0,
                   !.players[i].readyBid = TRUE,
                   !.inactiveTimeout = TRUE]

BidCancelledBy(s) ==
  BidCancelled(rooms[RoomOf(s)], FindBySocket(rooms[RoomOf(s)].players, s))

CancelBidMsgs(s) ==
  LET r1 == BidCancelledBy(s)
  IN  broadcastToRoom(r1, OpenSockets) \o checkBidSettleMsgs(r1, OpenSockets)

\* the game:cancelBid handler
CancelBidStep(s, rnd) ==
  /\ BidAccepted(s)
  /\ LET after == checkBidSettle(BidCancelledBy(s), rnd)
     IN  Commit(RoomOf(s), after, after.gameOver)
  /\ UNCHANGED <<checkWinCall, sock, nSock, nRooms, nSetItems>>

\* game:cancelBid within the rounds of the model
CancelBid(s, rnd) ==
  /\ BidAccepted(s)
  /\ RoundsLeft(s)
  /\ CancelBidStep(s, rnd)

GameEndAccepted(s) == HasRoom(s) /\ IsHostSocket(rooms[RoomOf(s)], s)

GameEnded(room) == [room EXCEPT !.gameOver = TRUE]

GameEndMsgs(s) ==
  LET r1 == GameEnded(rooms[RoomOf(s)])
  IN  <<Msg("game:ended", 0, r1.id, NoName, sanitizeRoom(r1, NoName))>>

GameEnd(s) ==
  /\ GameEndAccepted(s)
  /\ Commit(RoomOf(s), GameEnded(rooms[RoomOf(s)]), TRUE)
  /\ UNCHANGED <<checkWinCall, sock, nSock, nRooms, nSetItems>>

RoomDeleteAccepted(s) == HasRoom(s) /\ IsHostSocket(rooms[RoomOf(s)], s)

RoomDelete(s) ==
  /\ RoomDeleteAccepted(s)
  /\ rooms' = cleanupRoom(rooms, RoomOf(s))
  /\ UNCHANGED <<checkWinCall, sock, nSock, nRooms, nSetItems, cleanupTimers>>

(* ------------------------------------------------------------------ *)
(* Room timers                                                        *)
(* ------------------------------------------------------------------ *)
\* room.timeout, 15 minutes after room:create
PreStartTimeout(id) ==
  /\ id \in DOMAIN rooms
  /\ rooms[id].timeout
  /\ rooms' = IF ~rooms[id].started THEN cleanupRoom(rooms, id)
              ELSE [rooms EXCEPT ![id].timeout = FALSE]
  /\ UNCHANGED <<checkWinCall, sock, nSock, nRooms, nSetItems, cleanupTimers>>

\* room.inactiveTimeout, 60 minutes after the last renewal
InactiveTimeout(id) ==
  /\ id \in DOMAIN rooms
  /\ rooms[id].inactiveTimeout
  /\ rooms' = IF ~rooms[id].gameOver THEN cleanupRoom(rooms, id)
              ELSE [rooms EXCEPT ![id].inactiveTimeout = FALSE]
  /\ UNCHANGED <<checkWinCall, sock, nSock, nRooms, nSetItems, cleanupTimers>>

\* setTimeout(() => cleanupRoom(roomId)) of nextRound and game:end
CleanupTimer(id) ==
  /\ id \in DOMAIN cleanupTimers
  /\ cleanupTimers' = Fired(cleanupTimers, id)
  /\ rooms' = IF id \in DOMAIN rooms THEN cleanupRoom(rooms, id) ELSE rooms
  /\ UNCHANGED <<checkWinCall, sock, nSock, nRooms, nSetItems>>

(* ------------------------------------------------------------------ *)
(* Specifications                                                     *)
(* ------------------------------------------------------------------ *)
\* the server after start-up: no connection, no room
Init ==
  /\ rooms = <<>>
  /\ sock = <<>>
  /\ nSock = 0
  /\ nRooms = 0
  /\ nSetItems = 0
  /\ cleanupTimers = <<>>
  /\ checkWinCall = NoCall

\* the outcomes of the calls of randomItem() a handler makes for the room
\* of connection s; where the handler makes no call, one placeholder
NoDraw == {""}

\* game:start draws unless the room is in board mode
StartDraws(s) ==
  IF HasRoom(s) /\ ~rooms[RoomOf(s)].boardMode THEN ItemSet ELSE NoDraw

\* checkPhaseAdvance draws when a non-board room has no current item
AdvanceDraws(s) ==
  IF HasRoom(s) /\ ~rooms[RoomOf(s)].boardMode /\ rooms[RoomOf(s)].currentItem = ""
  THEN ItemSet ELSE NoDraw

\* nextRound draws the next item unless the room is in board mode
RoundDraws(s) ==
  IF HasRoom(s) /\ ~rooms[RoomOf(s)].boardMode THEN ItemSet ELSE NoDraw

RoomTimers ==
  \/ \E id \in DOMAIN rooms : PreStartTimeout(id)
  \/ \E id \in DOMAIN rooms : InactiveTimeout(id)
  \/ \E id \in DOMAIN cleanupTimers : CleanupTimer(id)

\* Spec: rooms and sessions from start-up, up to the first choose phase
Next ==
  \/ Connect
  \/ \E s \in 1..nSock, n \in HostNames, b \in BOOLEAN, now \in Clock :
        n \in UserNames(s) /\ RoomCreate(s, n, b, now)
  \/ \E s \in 1..nSock, id \in DOMAIN rooms, n \in Names :
        n \in UserNames(s) /\ RoomJoin(s, id, n)
  \/ \E s \in 1..nSock : RoomLeave(s)
  \/ \E s \in 1..nSock : Disconnect(s)
  \/ \E s \in 1..nSock : GraceTimer(s)
  \/ \E s \in 1..nSock : \E rnd \in StartDraws(s) : GameStart(s, rnd)
  \/ \E s \in 1..nSock, item \in SetItemInputs : GameSetItem(s, item)
  \/ \E s \in 1..nSock : GameEnd(s)
  \/ \E s \in 1..nSock : RoomDelete(s)
  \/ RoomTimers

Spec == Init /\ [][Next]_vars

\* the lobby reached by room:create of A and room:join of B and C
TheRoom == <<"A", 1>>

LobbyOfThree(boardMode) ==
  /\ rooms = [id \in {TheRoom} |->
                AddPlayer(AddPlayer(NewRoom(TheRoom, "A", 1, boardMode), 2, "B"), 3, "C")]
  /\ sock = [s \in 1..3 |->
               [status |-> "open", roomId |-> TheRoom,
                playerName |-> CHOOSE n \in Names : UserNames(s) = {n},
                timer |-> FALSE, joins |-> 1]]
  /\ nSock = 3
  /\ nRooms = 1
  /\ nSetItems = 0
  /\ cleanupTimers = <<>>
  /\ checkWinCall = NoCall

InitGame == \E b \in BOOLEAN : LobbyOfThree(b)

\* SpecGame: the game of a room of three, with players leaving
NextGame ==
  \/ \E s \in 1..nSock : \E rnd \in StartDraws(s) : GameStart(s, rnd)
  \/ \E s \in 1..nSock, item \in SetItemInputs : GameSetItem(s, item)
  \/ \E s \in 1..nSock : \E w \in BOOLEAN, rnd1 \in AdvanceDraws(s), rnd2 \in RoundDraws(s) :
        LockPart(s, w, rnd1, rnd2)
  \/ \E s \in 1..nSock : \E a \in Amounts, rnd \in RoundDraws(s) : ConfirmBid(s, a, rnd)
  \/ \E s \in 1..nSock : \E rnd \in RoundDraws(s) : CancelBid(s, rnd)
  \/ \E s \in 1..nSock : GameEnd(s)
  \/ \E s \in 1..nSock : RoomLeave(s)
  \/ \E id \in DOMAIN rooms : InactiveTimeout(id)
  \/ \E id \in DOMAIN cleanupTimers : CleanupTimer(id)

SpecGame == InitGame /\ [][NextGame]_vars

\* SpecRejoin: a non-board game of three whose connections drop and come
\* back; the draws of randomItem() are narrowed to the first item
FirstItem == {ITEMS[1]}

NextRejoin ==
  \/ Connect
  \/ \E s \in 1..nSock : Disconnect(s)
  \/ \E s \in 1..nSock, id \in DOMAIN rooms, n \in Names :
        n \in UserNames(s) /\ RoomJoin(s, id, n)
  \/ \E s \in 1..nSock : GraceTimer(s)
  \/ \E s \in 1..nSock, rnd \in FirstItem : GameStart(s, rnd)
  \/ \E s \in 1..nSock, w \in BOOLEAN, rnd1 \in FirstItem, rnd2 \in FirstItem :
        LockPart(s, w, rnd1, rnd2)
  \/ \E s \in 1..nSock, a \in Amounts, rnd \in FirstItem : ConfirmBid(s, a, rnd)
  \/ \E s \in 1..nSock, rnd \in FirstItem : CancelBid(s, rnd)

SpecRejoin == LobbyOfThree(FALSE) /\ [][NextRejoin]_vars

\* SpecWin: a started game of three, not board mode, played for several
\* rounds until a player meets the win condition.  C always opts out, every
\* bid is 10000, and randomItem() gives the first item of the
\* catalog or one of the other three, taken in turn round after round.
StartedThree ==
  /\ rooms = [id \in {TheRoom} |->
                StartedRoom(AddPlayer(AddPlayer(NewRoom(TheRoom, "A", 1, FALSE),
                                                2, "B"), 3, "C"), ITEMS[1])]
  /\ sock = [s \in 1..3 |->
               [status |-> "open", roomId |-> TheRoom,
                playerName |-> CHOOSE n \in Names : UserNames(s) = {n},
                timer |-> FALSE, joins |-> 1]]
  /\ nSock = 3
  /\ nRooms = 1
  /\ nSetItems = 0
  /\ cleanupTimers = <<>>
  /\ checkWinCall = NoCall

WinAmounts == {15000}

WinChoices(s) == IF s = 3 THEN {FALSE} ELSE BOOLEAN

WinDraws(s) ==
  IF HasRoom(s)
  THEN {ITEMS[1], ITEMS[(Len(rooms[RoomOf(s)].roundLogs) % 3) + 2]}
  ELSE NoDraw

MoreRounds(s) == HasRoom(s) /\ Len(rooms[RoomOf(s)].roundLogs) < MaxWinRounds

NextWin ==
  \/ \E s \in 1..nSock : \E w \in WinChoices(s), rnd1 \in AdvanceDraws(s), rnd2 \in WinDraws(s) :
        MoreRounds(s) /\ LockPartStep(s, w, rnd1, rnd2)
  \/ \E s \in 1..nSock : \E a \in WinAmounts, rnd \in WinDraws(s) :
        MoreRounds(s) /\ ConfirmBidStep(s, a, rnd)
  \/ \E id \in DOMAIN cleanupTimers : CleanupTimer(id)

SpecWin == StartedThree /\ [][NextWin]_vars

\* SpecRecreate: a room of three is ended and deleted, and its host name
\* creates a room again while the deletion timers of the first are pending
NextRecreate ==
  \/ \E s \in 1..nSock : \E rnd \in StartDraws(s) : GameStart(s, rnd)
  \/ \E s \in 1..nSock : GameEnd(s)
  \/ \E s \in 1..nSock : RoomDelete(s)
  \/ \E s \in 1..nSock : RoomLeave(s)
  \/ \E s \in 1..nSock, n \in HostNames, b \in BOOLEAN, now \in Clock :
        /\ n \in UserNames(s)
        /\ nRooms < MaxRooms + MaxRecreates
        /\ RoomCreateStep(s, n, b, now)
  \/ RoomTimers

SpecRecreate == InitGame /\ [][NextRecreate]_vars

\* SpecCheckWin: checkWin on every list of at most MaxCallItems tokens
NextCheckWin ==
  \E it \in Tokens, pos \in 1..(Len(checkWinCall.items) + 1) : CheckWinCall(it, pos)

SpecCheckWin == Init /\ [][NextCheckWin]_vars

\* SpecIds: one host name filling the range of its room ids.  The start is
\* the server after k room:create events of connection 1 as A (not board
\* mode), for k just below the 98 ids the counter can give.
ManyRooms(k) ==
  /\ rooms = [id \in {<<"A", n>> : n \in 1..k} |-> NewRoom(id, "A", 1, FALSE)]
  /\ sock = <<[status |-> "open", roomId |-> <<"A", k>>, playerName |-> "A",
               timer |-> FALSE, joins |-> k]>>
  /\ nSock = 1
  /\ nRooms = k
  /\ nSetItems = 0
  /\ cleanupTimers = <<>>
  /\ checkWinCall = NoCall

InitIds == \E k \in (MaxIdx - 4)..(MaxIdx - 1) : ManyRooms(k)

NextIds ==
  \/ \E b \in BOOLEAN, now \in Clock :
        nRooms < MaxIdx + MaxIdCreates /\ RoomCreateStep(1, "A", b, now)
  \/ RoomDelete(1)

SpecIds == InitIds /\ [][NextIds]_vars

(* ------------------------------------------------------------------ *)
(* Shared vocabulary of the properties                                *)
(* ------------------------------------------------------------------ *)
PlayerNames(room) == {room.players[i].name : i \in 1..Len(room.players)}

\* balance + hold over all players of a room
Funds(room) ==
  SumSeq([i \in 1..Len(room.players) |->
            room.players[i].balance + room.players[i].hold])

(* ------------------------------------------------------------------ *)
(* C1                                                                 *)
(* ------------------------------------------------------------------ *)
NoItemAwarded(before, after) ==
  \A i \in 1..Len(before.players) : after.players[i].items = before.players[i].items

C1Post(before, r1, after) ==
  LET n    == Cardinality({i \in 1..Len(r1.players) :
                             r1.players[i].willParticipate = "true"})
      done == after.round = before.round + 1
  IN  IF \E i \in 1..Len(r1.players) : ~r1.players[i].readyPart
      THEN after.phase = "choose" /\ after.round = before.round
      ELSE /\ after.phase = "bid" <=> n >= 2
           /\ (done /\ after.lastWinners = <<>> /\ NoItemAwarded(before, after)) <=> n = 0
           /\ (/\ done /\ after.phase # "bid" /\ Len(after.lastWinners) = 1
               /\ \A i \in 1..Len(r1.players) :
                    after.players[i].items =
                      IF r1.players[i].willParticipate = "true"
                      THEN Append(before.players[i].items, after.lastItem)
                      ELSE before.players[i].items) <=> n = 1

\* C1: on every accepted game:lockPart, while some player is not ready the
\* phase stays 'choose' and the round is unchanged; when the last player
\* becomes ready the room enters 'bid' iff at least 2 players participate,
\* completes the round with no winner and no item awarded iff none does,
\* and settles for the single participant without entering 'bid' iff one does.
C1_LockPartAdvance ==
  [][\A s \in 1..nSock : \A w \in BOOLEAN, rnd1 \in AdvanceDraws(s), rnd2 \in RoundDraws(s) :
       LockPart(s, w, rnd1, rnd2) =>
         C1Post(rooms[RoomOf(s)], LockedBy(s, w), rooms'[RoomOf(s)])]_vars

\* a single participant was settled at once: round 1, one winner holding
\* the item, the two others credited the opt-out bonus, still in 'choose'
C1_Witness ==
  \E id \in DOMAIN rooms :
    LET r == rooms[id] IN
    /\ r.round = 1 /\ r.phase = "choose" /\ Len(r.lastWinners) = 1
    /\ Len(r.players) = 3
    /\ \A i \in 1..3 :
         IF r.players[i].name = r.lastWinners[1]
         THEN r.players[i].items = <<r.lastItem>> /\ r.players[i].balance = StartBalance
         ELSE r.players[i].items = <<>> /\ r.players[i].balance = StartBalance + Bonus

(* ------------------------------------------------------------------ *)
(* C2                                                                 *)
(* ------------------------------------------------------------------ *)
\* the handler of the recorded room r1 goes on to settle the round
LockSettles(r1) == AllReadyPart(r1) /\ Len(ParticipantNames(r1)) <= 1

BidSettles(r1) == r1.phase = "bid" /\ AllReadyBid(r1)

Worth(p) == p.balance + p.hold

\* the settlement from r1 to after takes the winners' holds and nothing else
C2Post(r1, after) ==
  LET W     == Range(after.lastWinners)
      spent == SumSeq([i \in 1..Len(r1.players) |->
                 IF r1.players[i].name \in W THEN r1.players[i].hold ELSE 0])
  IN  /\ Funds(after) = Funds(r1) - spent
      /\ \A i \in 1..Len(r1.players) :
           r1.players[i].name \notin W => Worth(after.players[i]) = Worth(r1.players[i])

\* C2: across every settlement (settleAuction, settleSingleBidder, the
\* zero-participant completion) the sum of balance + hold over the players
\* drops by exactly the winners' holds, and every non-winner keeps its own
\* balance + hold.
C2_SettlementConserves ==
  [][\A s \in 1..nSock :
       /\ \A w \in BOOLEAN, rnd1 \in AdvanceDraws(s), rnd2 \in RoundDraws(s) :
            LockPart(s, w, rnd1, rnd2) /\ LockSettles(LockedBy(s, w))
              => C2Post(LockedBy(s, w), rooms'[RoomOf(s)])
       /\ \A a \in Amounts, rnd \in RoundDraws(s) :
            ConfirmBid(s, a, rnd) /\ BidSettles(BidPlacedBy(s, a))
              => C2Post(BidPlacedBy(s, a), rooms'[RoomOf(s)])
       /\ \A rnd \in RoundDraws(s) :
            CancelBid(s, rnd) /\ BidSettles(BidCancelledBy(s))
              => C2Post(BidCancelledBy(s), rooms'[RoomOf(s)])]_vars

(* ------------------------------------------------------------------ *)
(* C3                                                                 *)
(* ------------------------------------------------------------------ *)
C3Post(r1, after) ==
  LET P       == Range(r1.participants)
      present == {i \in 1..Len(r1.players) : r1.players[i].name \in P}
      allZero == \A i \in present : r1.players[i].hold = 0
      top     == {r1.players[i].name : i \in
                    {j \in present : \A k \in present :
                                       r1.players[k].hold <= r1.players[j].hold}}
      W       == Range(after.lastWinners)
  IN  /\ allZero => W = P
      /\ ~allZero => /\ W = top
                     /\ \A i \in present : r1.players[i].name \in W => r1.players[i].hold > 0
      /\ \A i \in 1..Len(r1.players) :
           after.players[i].items =
             IF r1.players[i].name \in W
             THEN Append(r1.players[i].items, r1.currentItem)
             ELSE r1.players[i].items

\* C3: when a bid phase is settled, the winners are all participants of the
\* round if every participant's hold is 0, and otherwise exactly the
\* participants holding the maximum, each with hold > 0; every winner gains
\* one copy of the current item and no other inventory changes.
C3_AuctionWinners ==
  [][\A s \in 1..nSock :
       /\ \A a \in Amounts, rnd \in RoundDraws(s) :
            ConfirmBid(s, a, rnd) /\ BidSettles(BidPlacedBy(s, a))
              => C3Post(BidPlacedBy(s, a), rooms'[RoomOf(s)])
       /\ \A rnd \in RoundDraws(s) :
            CancelBid(s, rnd) /\ BidSettles(BidCancelledBy(s))
              => C3Post(BidCancelledBy(s), rooms'[RoomOf(s)])]_vars

(* ------------------------------------------------------------------ *)
(* C4                                                                 *)
(* ------------------------------------------------------------------ *)
\* amounts tried on every state: the inputs of the model and values around
\* the unit, around a player's funds and far beyond them
BidInputs ==
  Amounts \cup {-20000, -10000, -1, 1, 9999, 10000, 10001, 990000, 999999,
                1000000, 1000001, 1049999, 1050000, 1060000}

C4Post(p, q) ==
  /\ q.hold % BidUnit = 0
  /\ 0 <= q.hold /\ q.hold <= p.balance + p.hold
  /\ q.balance >= 0
  /\ q.balance + q.hold = p.balance + p.hold

\* C4: game:confirmBid, accepted for any integer amount, records a hold that
\* is a multiple of 10000 within 0 .. balance + hold of before, leaves the
\* balance non-negative and keeps balance + hold.
C4_BidClamped ==
  \A s \in 1..nSock :
    BidAccepted(s) =>
      LET room == rooms[RoomOf(s)]
          i    == FindBySocket(room.players, s)
      IN  \A a \in BidInputs : C4Post(room.players[i], BidPlacedBy(s, a).players[i])

\* a bid larger than the funds was clamped to all of them, with a hold
\* carried into the bid phase by the player: hold 1000000, balance 0
C4_Witness ==
  \E id \in DOMAIN rooms :
    LET r == rooms[id] IN
    /\ r.phase = "bid" /\ ~r.gameOver
    /\ \E i \in 1..Len(r.players) :
         /\ r.players[i].readyBid /\ r.players[i].bid = StartBalance
         /\ r.players[i].hold = StartBalance /\ r.players[i].balance = 0
    /\ \E i \in 1..Len(r.players) :
         /\ ~r.players[i].readyBid /\ r.players[i].hold > 0
         /\ IsParticipant(r, r.players[i])

(* ------------------------------------------------------------------ *)
(* C5                                                                 *)
(* ------------------------------------------------------------------ *)
\* every message a handler the code accepts in this state would send
MsgsSent ==
  UNION ({Range(RoomCreateMsgs(s, n, b, now)) :
            <<s, n, b, now>> \in {x \in (1..nSock) \X Names \X BOOLEAN \X Clock :
                                    RoomCreateAccepted(x[1], x[2])}}
    \cup {Range(RoomJoinMsgs(s, id, n)) :
            <<s, id, n>> \in {x \in (1..nSock) \X (DOMAIN rooms) \X Names :
                                RoomJoinAccepted(x[1], x[2], x[3])}}
    \cup {Range(handleLeaveMsgs(rooms, s, OpenSockets)) :
            s \in {x \in 1..nSock : HasRoom(x)}}
    \cup {Range(GameStartMsgs(s, rnd)) :
            <<s, rnd>> \in {x \in (1..nSock) \X ItemSet : GameStartAccepted(x[1])}}
    \cup {Range(GameSetItemMsgs(s, item)) :
            <<s, item>> \in {x \in (1..nSock) \X SetItemInputs : GameSetItemAccepted(x[1])}}
    \cup {Range(LockPartMsgs(s, w, rnd)) :
            <<s, w, rnd>> \in {x \in (1..nSock) \X BOOLEAN \X ItemSet : LockPartAccepted(x[1])}}
    \cup {Range(ConfirmBidMsgs(s, a)) :
            <<s, a>> \in {x \in (1..nSock) \X Amounts : BidAccepted(x[1])}}
    \cup {Range(CancelBidMsgs(s)) : s \in {x \in 1..nSock : BidAccepted(x)}}
    \cup {Range(GameEndMsgs(s)) : s \in {x \in 1..nSock : GameEndAccepted(x)}})

Scrubbed(m) ==
  \A i \in 1..Len(m.room.players) :
    LET q == m.room.players[i] IN
    q.name # m.for => q.balance = Null /\ q.hold = Null /\ q.items = Null

\* the room with the funds and the items of everyone but name replaced,
\* item lists keeping their length
Canon(room, name) ==
  [room EXCEPT !.players = [i \in 1..Len(room.players) |->
     LET p == room.players[i] IN
     IF p.name = name THEN p
     ELSE [p EXCEPT !.balance = 0, !.hold = BidUnit,
                    !.items = [j \in 1..Len(p.items) |-> ITEMS[4]]]]]

\* C5: every message sent while the carried room's gameOver is false is one
\* of room:created, room:joined, room:updated, game:started, round:result,
\* goes to one connection, and has balance, hold and items null for every
\* player but the one it was built for; and the projection of a room for a
\* player is the projection of the room with the other players' balance,
\* hold and items (of equal length) replaced.
C5_OthersHidden ==
  /\ \A m \in MsgsSent :
       ~m.room.gameOver =>
         /\ m.type \in {"room:created", "room:joined", "room:updated",
                        "game:started", "round:result"}
         /\ m.to # 0 /\ m.bcast = NoRoom
         /\ Scrubbed(m)
  /\ \A id \in DOMAIN rooms : \A n \in PlayerNames(rooms[id]) :
       sanitizeRoom(Canon(rooms[id], n), n) = sanitizeRoom(rooms[id], n)

\* bids are held in a running round, and the next bid settles it: the
\* round:result built for one player carries another player who holds
\* funds and has just won an item
C5_Witness ==
  \E id \in DOMAIN rooms :
    LET r == rooms[id] IN
    /\ ~r.gameOver /\ r.phase = "bid"
    /\ \E i \in 1..Len(r.players) : r.players[i].hold > 0 /\ r.players[i].balance > 0
    /\ \E m \in MsgsSent :
         /\ m.type = "round:result" /\ ~m.room.gameOver
         /\ \E j \in 1..Len(m.room.players) :
              /\ m.room.players[j].name # m.for
              /\ m.room.players[j].itemCount > 0
              /\ r.players[j].hold > 0

(* ------------------------------------------------------------------ *)
(* C6                                                                 *)
(* ------------------------------------------------------------------ *)
\* the player called name in room id is bound to a connection that is gone
\* and whose grace timer is still to fire
Dropped(id, name) ==
  LET i == FindByName(rooms[id].players, name) IN
  /\ i # 0
  /\ rooms[id].players[i].socketId \in 1..nSock
  /\ sock[rooms[id].players[i].socketId].status = "closed"
  /\ sock[rooms[id].players[i].socketId].timer

\* connection s was closed and its player has been bound to another one
Replaced(s) ==
  /\ sock[s].status = "closed"
  /\ sock[s].roomId \in DOMAIN rooms
  /\ LET ps == rooms[sock[s].roomId].players
         i  == FindByName(ps, sock[s].playerName)
     IN  i # 0 /\ ps[i].socketId # s /\ ps[i].socketId \in OpenSockets

\* C6: in the bid phase a disconnect leaves the room as it is; a room:join
\* with the name of a dropped player, from a new connection and before the
\* grace timer fires, changes nothing in the room but that player's
\* connection id, which becomes the new connection (no player added or
\* removed; balance, hold, items, willParticipate, readyPart, readyBid
\* kept); and the grace timer of the old connection, firing later, leaves
\* the room as it is.
C6_ReconnectKeepsPlayer ==
  [][/\ \A s \in 1..nSock :
          Disconnect(s) /\ HasRoom(s) /\ rooms[RoomOf(s)].phase = "bid"
            => rooms' = rooms
     /\ \A s \in 1..nSock, id \in DOMAIN rooms, n \in Names :
          RoomJoin(s, id, n) /\ rooms[id].phase = "bid" /\ Dropped(id, n)
            => LET i == FindByName(rooms[id].players, n) IN
               /\ id \in DOMAIN rooms'
               /\ rooms'[id].players[i].socketId = s
               /\ rooms'[id] = [rooms[id] EXCEPT !.players[i].socketId = s]
     /\ \A s \in 1..nSock :
          GraceTimer(s) /\ Replaced(s) /\ rooms[sock[s].roomId].phase = "bid"
            => rooms' = rooms]_vars

\* a bidder who holds funds was dropped and came back on connection 4, and
\* the grace timer of the old connection has fired since
C6_Witness ==
  \E id \in DOMAIN rooms :
    LET r == rooms[id] IN
    /\ r.phase = "bid" /\ r.started /\ ~r.gameOver
    /\ \E i \in 1..Len(r.players) :
         /\ r.players[i].socketId = 4 /\ sock[4].status = "open"
         /\ r.players[i].hold > 0 /\ r.players[i].readyBid
         /\ r.players[i].willParticipate = "true"
         /\ \E s \in 1..3 : /\ sock[s].playerName = r.players[i].name
                            /\ sock[s].status = "closed" /\ ~sock[s].timer
    /\ Len(r.players) = 3

(* ------------------------------------------------------------------ *)
(* C7                                                                 *)
(* ------------------------------------------------------------------ *)
\* C7: every room of the registry that has players has exactly one player
\* whose name is the room's hostName.
C7_OneHostNamed ==
  \A id \in DOMAIN rooms :
    Len(rooms[id].players) > 0 =>
      Cardinality({i \in 1..Len(rooms[id].players) :
                     rooms[id].players[i].name = rooms[id].hostName}) = 1

(* ------------------------------------------------------------------ *)
(* C8                                                                 *)
(* ------------------------------------------------------------------ *)
\* s is the open connection of the player named hostName of its room
HostConnection(s) ==
  /\ HasRoom(s)
  /\ LET room == rooms[RoomOf(s)]
         i    == FindByName(room.players, room.hostName)
     IN  /\ i # 0 /\ room.players[i].socketId = s
         /\ sock[s].playerName = room.hostName

\* C8: the connection of the player named hostName, the original one or
\* one that replaced it by a reconnection, has the host's events accepted:
\* game:end and room:delete always, game:start with at least 3 players,
\* game:setItem in a started board-mode room.
C8_HostFollowsName ==
  \A s \in 1..nSock :
    HostConnection(s) =>
      LET room == rooms[RoomOf(s)] IN
      /\ GameEndAccepted(s)
      /\ RoomDeleteAccepted(s)
      /\ Len(room.players) >= MinPlayers => GameStartAccepted(s)
      /\ room.started /\ room.boardMode => GameSetItemAccepted(s)

(* ------------------------------------------------------------------ *)
(* C9                                                                 *)
(* ------------------------------------------------------------------ *)
\* C9: in every room each name in participants is the name of a player of
\* the room, and in phase bid at least 2 participants are players of the
\* room.
C9_ParticipantsPresent ==
  \A id \in DOMAIN rooms :
    LET room == rooms[id] IN
    /\ Range(room.participants) \subseteq PlayerNames(room)
    /\ room.phase = "bid" =>
         Cardinality(Range(room.participants) \cap PlayerNames(room)) >= 2

(* ------------------------------------------------------------------ *)
(* C10                                                                *)
(* ------------------------------------------------------------------ *)
\* what the game events may not touch outside a running game
GameFields(room) ==
  <<room.round, room.phase, room.currentItem, room.participants,
    [i \in 1..Len(room.players) |->
       LET p == room.players[i] IN
       <<p.name, p.balance, p.hold, p.items, p.willParticipate,
         p.readyPart, p.readyBid>>]>>

RoundEvent(s) ==
  \/ \E item \in SetItemInputs : GameSetItem(s, item)
  \/ \E w \in BOOLEAN, rnd1 \in AdvanceDraws(s), rnd2 \in RoundDraws(s) :
       LockPart(s, w, rnd1, rnd2)
  \/ \E a \in Amounts, rnd \in RoundDraws(s) : ConfirmBid(s, a, rnd)
  \/ \E rnd \in RoundDraws(s) : CancelBid(s, rnd)

GameFieldsKept(s) ==
  /\ RoomOf(s) \in DOMAIN rooms'
  /\ GameFields(rooms'[RoomOf(s)]) = GameFields(rooms[RoomOf(s)])

\* C10: once gameOver is true, game:start, game:setItem, game:lockPart,
\* game:confirmBid and game:cancelBid leave the room's round, phase,
\* currentItem, participants and every player's balance, hold, items,
\* willParticipate, readyPart and readyBid as they are; before started is
\* true, so do setItem, lockPart, confirmBid and cancelBid.
C10_GatedByFlags ==
  [][\A s \in 1..nSock :
       /\ ( /\ HasRoom(s) /\ rooms[RoomOf(s)].gameOver
            /\ (RoundEvent(s) \/ \E rnd \in StartDraws(s) : GameStart(s, rnd)) )
            => GameFieldsKept(s)
       /\ ( HasRoom(s) /\ ~rooms[RoomOf(s)].started /\ RoundEvent(s) )
            => GameFieldsKept(s)]_vars

(* ------------------------------------------------------------------ *)
(* C11                                                                *)
(* ------------------------------------------------------------------ *)
\* C11: while a room stays in the registry, started and gameOver never go
\* from true to false and the round counter never decreases, whatever the
\* event, a repeated game:start included.
C11_FlagsMonotonic ==
  [][\A id \in (DOMAIN rooms) \cap (DOMAIN rooms') :
       /\ rooms[id].started => rooms'[id].started
       /\ rooms[id].gameOver => rooms'[id].gameOver
       /\ rooms'[id].round >= rooms[id].round]_vars

(* ------------------------------------------------------------------ *)
(* C12                                                                *)
(* ------------------------------------------------------------------ *)
\* C12: room:create registers the new room under an id no room of the
\* registry has: the registry gains exactly that id and every room it held
\* stays as it was, for counter ids and for the timestamp fallback alike.
C12_FreshRoomId ==
  [][\A s \in 1..nSock, n \in Names, b \in BOOLEAN, now \in Clock :
       RoomCreateStep(s, n, b, now) =>
         LET id == generateRoomId(DOMAIN rooms, n, now) IN
         /\ id \notin DOMAIN rooms
         /\ DOMAIN rooms' = (DOMAIN rooms) \cup {id}
         /\ \A old \in DOMAIN rooms : rooms'[old] = rooms[old]]_vars

(* ------------------------------------------------------------------ *)
(* C13                                                                *)
(* ------------------------------------------------------------------ *)
\* a player of a carried room shows its balance and items to everyone: a
\* projected player (it has an itemCount) with both fields non-null, or the
\* player object itself
Revealed(q) ==
  IF "itemCount" \in DOMAIN q THEN q.balance # Null /\ q.items # Null ELSE TRUE

\* C13: every game:ended message, from a round completion with a game
\* winner or from the host's game:end, carries a room in which every
\* player's balance and items are revealed.
C13_EndedReveals ==
  \A m \in MsgsSent :
    m.type = "game:ended" =>
      \A i \in 1..Len(m.room.players) : Revealed(m.room.players[i])

(* ------------------------------------------------------------------ *)
(* C14                                                                *)
(* ------------------------------------------------------------------ *)
\* the win condition in words: five items, or three of a kind, or four kinds
WinInWords(items) ==
  LET N == 1..Len(items) IN
  \/ Len(items) >= 5
  \/ \E i, j, k \in N : i < j /\ j < k /\ items[i] = items[j] /\ items[j] = items[k]
  \/ \E i, j, k, l \in N :
       Cardinality({items[i], items[j], items[k], items[l]}) = 4

\* C14: checkWin returns a win exactly for the lists with at least 5 items,
\* or 3 items of one type, or 4 distinct types; and a list that wins still
\* wins with one more item added anywhere (so with any number added).
C14_CheckWinMonotonic ==
  /\ [](checkWinCall.returned # "null" <=> WinInWords(checkWinCall.items))
  /\ [][checkWinCall.returned # "null" => checkWinCall'.returned # "null"]_vars

\* three of a kind won, and three more items of other kinds were added
C14_Witness ==
  /\ Len(checkWinCall.items) = 6
  /\ checkWinCall.returned # "null"
  /\ checkWinCall.items[1] = checkWinCall.items[2]
  /\ checkWinCall.items[2] = checkWinCall.items[3]
  /\ Cardinality(Range(checkWinCall.items)) = 4

(* ------------------------------------------------------------------ *)
(* C15                                                                *)
(* ------------------------------------------------------------------ *)
\* A deletion is scheduled only for a room whose gameOver is true, and
\* gameOver is never set back: a room with gameOver false under the id of
\* a pending deletion was created after the room of that deletion was gone.
\* C15: the deletion timer of an ended room, firing when a room created
\* later under the same id is in the registry, leaves that room there.
C15_StaleTimerSpares ==
  [][\A id \in DOMAIN cleanupTimers :
       CleanupTimer(id) /\ id \in DOMAIN rooms /\ ~rooms[id].gameOver
         => id \in DOMAIN rooms' /\ rooms'[id] = rooms[id]]_vars

(* ------------------------------------------------------------------ *)
(* C16                                                                *)
(* ------------------------------------------------------------------ *)
\* C16: in a started room in phase choose every player's hold is 0.
C16_NoHoldInChoose ==
  \A id \in DOMAIN rooms :
    rooms[id].started /\ rooms[id].phase = "choose" =>
      \A i \in 1..Len(rooms[id].players) : rooms[id].players[i].hold = 0

(* ------------------------------------------------------------------ *)
(* C17                                                                *)
(* ------------------------------------------------------------------ *)
\* Every player starts with StartBalance and the bonus is the only credit
\* there is, so one bonus at most per round bounds balance + hold by the
\* start plus one bonus for each round completed and one for the round
\* under way.
\* C17: a player's balance + hold grows by at most 50000 in each round:
\* it never exceeds 1000000 + 50000 * (completed rounds + 1).
C17_OneBonusPerRound ==
  \A id \in DOMAIN rooms :
    \A i \in 1..Len(rooms[id].players) :
      Worth(rooms[id].players[i]) <=
        StartBalance + Bonus * (Len(rooms[id].roundLogs) + 1)

(* ------------------------------------------------------------------ *)
(* C20                                                                *)
(* ------------------------------------------------------------------ *)
\* C20: a started room that is not over rests in phase choose with an item
\* set only while some player has not locked, and in phase bid only while
\* some participant among the players has not bid.
C20_RoundCanProgress ==
  \A id \in DOMAIN rooms :
    LET room == rooms[id] IN
    room.started /\ ~room.gameOver =>
      /\ room.phase = "choose" /\ room.currentItem # "" =>
           \E i \in 1..Len(room.players) : ~room.players[i].readyPart
      /\ room.phase = "bid" =>
           \E i \in 1..Len(room.players) :
             IsParticipant(room, room.players[i]) /\ ~room.players[i].readyBid

(* ------------------------------------------------------------------ *)
(* C19                                                                *)
(* ------------------------------------------------------------------ *)
\* positions in msgs of the messages delivered to connection sid, directly
\* or through the socket.io room of room id
DeliveredTo(msgs, sid, id) ==
  {k \in 1..Len(msgs) : msgs[k].to = sid \/ msgs[k].bcast = id}

\* every connected player of the room the handler left got a view, and the
\* last one is the projection of that room for the player
C19Post(msgs, after) ==
  \A i \in 1..Len(after.players) :
    LET p  == after.players[i]
        ks == DeliveredTo(msgs, p.socketId, after.id)
    IN  p.socketId \in OpenSockets =>
          /\ ks # {}
          /\ msgs[CHOOSE k \in ks : \A j \in ks : j <= k].room
               = sanitizeRoom(after, p.name)

\* C19: when the handler of game:lockPart, game:confirmBid, game:cancelBid
\* or game:setItem completes in a started room, the last room view it
\* delivered to each connected player is the projection of the room as the
\* handler left it; after a completed round, the re-entered choose state.
C19_LastViewCurrent ==
  [][\A s \in 1..nSock :
       /\ \A w \in BOOLEAN, rnd1 \in AdvanceDraws(s), rnd2 \in RoundDraws(s) :
            LockPart(s, w, rnd1, rnd2)
              => C19Post(LockPartMsgs(s, w, rnd1), rooms'[RoomOf(s)])
       /\ \A a \in Amounts, rnd \in RoundDraws(s) :
            ConfirmBid(s, a, rnd) => C19Post(ConfirmBidMsgs(s, a), rooms'[RoomOf(s)])
       /\ \A rnd \in RoundDraws(s) :
            CancelBid(s, rnd) => C19Post(CancelBidMsgs(s), rooms'[RoomOf(s)])
       /\ \A item \in SetItemInputs :
            GameSetItem(s, item) => C19Post(GameSetItemMsgs(s, item), rooms'[RoomOf(s)])]_vars

(* ------------------------------------------------------------------ *)
(* C18                                                                *)
(* ------------------------------------------------------------------ *)
\* the names, in player order, of the players whose items meet the win
\* condition
Winning(room) ==
  LET won == SelectSeq(room.players, LAMBDA p : WinInWords(p.items))
  IN  [i \in 1..Len(won) |-> won[i].name]

\* C18: while gameOver is false no player's items meet the win condition,
\* and no player ever has more than 5 items; and a round completion that
\* sets gameOver sets finalWinners to the players, in player order, whose
\* items meet the win condition then.
C18_WinnersExact ==
  /\ [](\A id \in DOMAIN rooms :
          /\ ~rooms[id].gameOver => Winning(rooms[id]) = <<>>
          /\ \A i \in 1..Len(rooms[id].players) : Len(rooms[id].players[i].items) <= 5)
  /\ [][\A id \in (DOMAIN rooms) \cap (DOMAIN rooms') :
          /\ ~rooms[id].gameOver /\ rooms'[id].gameOver
          /\ rooms'[id].round = rooms[id].round + 1
          => /\ rooms'[id].finalWinners = Winning(rooms'[id])
             /\ rooms'[id].finalWinners # <<>>]_vars

\* the game ended on a round that A and B won together, and only one of
\* them is a winner of the game, with five items of three kinds
C18_Witness ==
  \E id \in DOMAIN rooms :
    LET r == rooms[id] IN
    /\ r.gameOver /\ Len(r.lastWinners) = 2 /\ Len(r.finalWinners) = 1
    /\ \E i \in 1..Len(r.players) :
         /\ r.players[i].name = r.finalWinners[1]
         /\ Len(r.players[i].items) = 5
         /\ Cardinality(Range(r.players[i].items)) = 3
         /\ \A it \in Range(r.players[i].items) : Count(r.players[i].items, it) <= 2

====
